---- MODULE Spec2Model ----
(***************************************************************************)
(* Model of ipyvolume/embed.py: embed_html and the four asset savers       *)
(* (save_ipyvolumejs, save_requirejs, save_embed_js, save_font_awesome).   *)
(*                                                                         *)
(* Strings are sequences of tokens.  Directory names are spelled character *)
(* by character (so that str.startswith("..") is decided on characters);   *)
(* file names, urls and markup are single tokens.  A path is a record      *)
(* [abs, comps]: whether it starts with "/" and its components.  The file  *)
(* system is a record [dirs, files]: the set of directories and a function *)
(* from file paths to contents, both keyed by absolute normalised          *)
(* component sequences.                                                    *)
(***************************************************************************)
EXTENDS Integers, Sequences, FiniteSets, TLC

VARIABLES fs, devfile_exists, pc, args, loc, err, trace, io, fs0, calls

vars == <<fs, devfile_exists, pc, args, loc, err, trace, io, fs0, calls>>

\* number of embed_html calls made one after another on the same file system
MaxCalls == 1

-----------------------------------------------------------------------------
(* strings and paths                                                       *)

CURDIR == <<".">>
PARDIR == <<".", ".">>
SEP == <<"/">>

\* the process's working directory, /w
CWD == << <<"w">> >>

Front(s) == SubSeq(s, 1, Len(s) - 1)

Last(s) == s[Len(s)]

Contains(s, sub) ==
    \E i \in 1..(Len(s) - Len(sub) + 1) : SubSeq(s, i, i + Len(sub) - 1) = sub

str_startswith(s, prefix) ==
    /\ Len(s) >= Len(prefix)
    /\ SubSeq(s, 1, Len(prefix)) = prefix

RelPath(comps) == [abs |-> FALSE, comps |-> comps]

AbsPath(comps) == [abs |-> TRUE, comps |-> comps]

IsEmptyPath(p) == ~p.abs /\ p.comps = <<>>

RECURSIVE JoinComps(_)
JoinComps(comps) ==
    IF comps = <<>> THEN <<>>
    ELSE IF Len(comps) = 1 THEN Head(comps)
    ELSE Head(comps) \o SEP \o JoinComps(Tail(comps))

\* the text of a path
PathStr(p) == (IF p.abs THEN SEP ELSE <<>>) \o JoinComps(p.comps)

os_path_isabs(p) == p.abs

os_path_join(a, b) ==
    IF b.abs THEN b ELSE [abs |-> a.abs, comps |-> a.comps \o b.comps]

os_path_dirname(p) == [abs |-> p.abs, comps |-> Front(p.comps)]

os_path_basename(p) == Last(p.comps)

RECURSIVE NormComps(_, _)
NormComps(todo, acc) ==
    IF todo = <<>> THEN acc
    ELSE LET c == Head(todo) IN
         IF c = CURDIR THEN NormComps(Tail(todo), acc)
         ELSE IF c = PARDIR
              THEN NormComps(Tail(todo), IF acc = <<>> THEN <<>> ELSE Front(acc))
              ELSE NormComps(Tail(todo), Append(acc, c))

os_path_abspath(p) ==
    AbsPath(NormComps(IF p.abs THEN p.comps ELSE CWD \o p.comps, <<>>))

\* the absolute normalised components of a path: its key in the file system
Key(p) == os_path_abspath(p).comps

RECURSIVE CommonLen(_, _)
CommonLen(a, b) ==
    IF a = <<>> \/ b = <<>> \/ Head(a) # Head(b) THEN 0
    ELSE 1 + CommonLen(Tail(a), Tail(b))

os_path_relpath(path, start) ==
    LET start_list == Key(start)
        path_list == Key(path)
        i == CommonLen(start_list, path_list)
        rel_list == [k \in 1..(Len(start_list) - i) |-> PARDIR]
                        \o SubSeq(path_list, i + 1, Len(path_list))
    IN  IF rel_list = <<>> THEN CURDIR ELSE JoinComps(rel_list)

-----------------------------------------------------------------------------
(* the file system                                                         *)

Prefixes(comps) == {SubSeq(comps, 1, i) : i \in 0..Len(comps)}

os_path_exists(f, p) ==
    /\ ~IsEmptyPath(p)
    /\ Key(p) \in f.dirs \cup DOMAIN f.files

os_path_isdir(f, p) == ~IsEmptyPath(p) /\ Key(p) \in f.dirs

os_makedirs(f, p) == [f EXCEPT !.dirs = @ \cup Prefixes(Key(p))]

\* open(p, "w") succeeds when p names no directory and its parent exists
CanOpenForWrite(f, p) ==
    /\ ~IsEmptyPath(p)
    /\ Key(p) # <<>>
    /\ Key(p) \notin f.dirs
    /\ Front(Key(p)) \in f.dirs

WriteFile(f, p, content) ==
    [f EXCEPT !.files = (Key(p) :> content) @@ @]

\* shutil.copy(src, dst): into dst when dst is a directory, else onto dst
CopyTarget(f, src, dst) ==
    IF os_path_isdir(f, dst) THEN os_path_join(dst, RelPath(<<os_path_basename(src)>>))
    ELSE dst

IsUnder(k, root) == Len(k) >= Len(root) /\ SubSeq(k, 1, Len(root)) = root

Rebase(k, from, to) == to \o SubSeq(k, Len(from) + 1, Len(k))

os_rename(f, src, dst) ==
    LET from == Key(src)
        to == Key(dst)
        moved(k) == IF IsUnder(k, from) THEN Rebase(k, from, to) ELSE k
        newkeys == {moved(k) : k \in DOMAIN f.files}
    IN  [dirs  |-> {moved(k) : k \in f.dirs},
         files |-> [k \in newkeys |->
                      f.files[CHOOSE o \in DOMAIN f.files : moved(o) = k]]]

-----------------------------------------------------------------------------
(* names, versions and urls                                                *)

OUT == <<"o", "u", "t">>
SCRIPTS == <<"s">>
OUTSIDE == <<"x">>

File(name) == RelPath(<< <<name>> >>)

\* ipyvolume.__path__[0] and what lives next to it
ipyvolume_path == AbsPath(<< <<"pkg">>, <<"ipyvolume">> >>)

threejs == os_path_join(ipyvolume_path, RelPath(<< <<"static">>, <<"three.js">> >>))

devfile ==
    os_path_join(ipyvolume_path,
                 RelPath(<< PARDIR, <<"js">>, <<"dist">>, <<"index.js">> >>))

version_js == <<"0.4.5">>
version_require == <<"2.3.4">>
html_manager_version == <<"^", "0.18.0">>
version_font_awesome == <<"4.7.0">>

url_ipyvolumejs == <<"https://unpkg.com/ipyvolume@">> \o version_js \o <<"/dist/index.js">>

url_requirejs ==
    <<"https://cdnjs.cloudflare.com/ajax/libs/require.js/">> \o version_require
        \o <<"/require.min.js">>

url_embed_js ==
    <<"https://unpkg.com/@jupyter-widgets/html-manager@">> \o html_manager_version
        \o <<"/dist/embed-amd.js">>

url_font_awesome ==
    <<"http://fontawesome.io/assets/font-awesome-">> \o version_font_awesome \o <<".zip">>

filename_requirejs == <<"require.min.v">> \o version_require \o <<".js">>

filename_embed_js == <<"embed-amd_v">> \o Tail(html_manager_version) \o <<".js">>

folder_name_font_awesome == <<"font-awesome-">> \o version_font_awesome

\* a file name or folder name as one path component
Comp(str) == RelPath(<<str>>)

-----------------------------------------------------------------------------
(* errors and the outcomes of the operations that touch the outside world  *)

NoErr == [kind |-> "none", msg |-> <<>>]

Error(kind, msg) == [kind |-> kind, msg |-> msg]

Outcome(f, e, log) == [fs |-> f, err |-> e, io |-> log]

IoEntry(op, url, ok) == [op |-> op, url |-> url, ok |-> ok]

\* ipyvolume.utils.download_to_file: fetch url, create the parent directories
\* as needed, write the file
download_to_file(f, url, filepath, ok) ==
    IF ok
    THEN Outcome(WriteFile(os_makedirs(f, os_path_dirname(filepath)), filepath,
                           <<"GET ">> \o url),
                 NoErr, <<IoEntry("fetch", url, TRUE)>>)
    ELSE Outcome(f, Error("FetchError", url), <<IoEntry("fetch", url, FALSE)>>)

shutil_copy(f, src, dst) ==
    LET target == CopyTarget(f, src, dst) IN
    IF CanOpenForWrite(f, target)
    THEN Outcome(WriteFile(f, target, <<"copy of ">> \o PathStr(src)), NoErr, <<>>)
    ELSE Outcome(f, Error("FileNotFoundError", PathStr(target)), <<>>)

\* run b on the file system a left behind, unless a failed
Then(a, b(_)) ==
    IF a.err # NoErr THEN a
    ELSE LET r == b(a.fs) IN Outcome(r.fs, r.err, a.io \o r.io)

-----------------------------------------------------------------------------
(* the asset savers                                                        *)

save_ipyvolumejs(f, folderpath, devmode, ok) ==
    LET filepath == os_path_join(folderpath, File("ipyvolume.js"))
        place(g) ==
            IF devmode /\ devfile_exists
            THEN shutil_copy(IF ~IsEmptyPath(folderpath) /\ ~os_path_exists(g, folderpath)
                             THEN os_makedirs(g, folderpath) ELSE g,
                             devfile, filepath)
            ELSE download_to_file(g, url_ipyvolumejs, filepath, ok)
        copy_three(g) == shutil_copy(g, threejs, os_path_dirname(filepath))
    IN  Then(place(f), copy_three)

save_requirejs(f, folderpath, ok) ==
    download_to_file(f, url_requirejs,
                     os_path_join(folderpath, Comp(filename_requirejs)), ok)

save_embed_js(f, folderpath, ok) ==
    download_to_file(f, url_embed_js,
                     os_path_join(folderpath, Comp(filename_embed_js)), ok)

\* what the archive holds under its top-level folder
ArchiveCss == RelPath(<< <<"css">> >>)

ArchiveFile == RelPath(<< <<"css">>, <<"font-awesome.min.css">> >>)

\* ZipFile.extractall(dirpath) of an archive whose first entry is top
extractall(f, dirpath, top) ==
    LET root == os_path_join(dirpath, Comp(top)) IN
    WriteFile(os_makedirs(f, os_path_join(root, ArchiveCss)),
              os_path_join(root, ArchiveFile), <<"font-awesome.min.css">>)

\* an extraction that fails after its first entry
extract_partial(f, dirpath, top) == os_makedirs(f, os_path_join(dirpath, Comp(top)))

\* a slip: the cause re-raised without the url
unzip_error_bare(url, cause) == Error("IOError", cause)

unzip_error(url, cause) ==
    Error("IOError", <<"Could not unzip content from: ">> \o url \o <<"\n">> \o cause)

FontOutcomes == {"ok", "fetch_failed", "bad_zip", "extract_failed"}

\* the top-level names an archive may come with
TopLevelNames == {folder_name_font_awesome, <<"Font-Awesome-master">>}

\* a slip: the existence check dropped
is_cached_never(f, folder_path) == FALSE

\* line 87
is_cached(f, folder_path) == os_path_exists(f, folder_path)

save_font_awesome(f, dirpath, outcome, top) ==
    LET folder_path == os_path_join(dirpath, Comp(folder_name_font_awesome))
        url == url_font_awesome
    IN  IF is_cached(f, folder_path) THEN Outcome(f, NoErr, <<>>)
        ELSE IF outcome = "fetch_failed"
        THEN Outcome(f, Error("FetchError", url), <<IoEntry("fetch", url, FALSE)>>)
        ELSE IF outcome = "bad_zip"
        THEN Outcome(f, unzip_error(url, <<"BadZipFile">>),
                     <<IoEntry("fetch", url, TRUE), IoEntry("unzip", url, FALSE)>>)
        ELSE IF outcome = "extract_failed"
        THEN Outcome(extract_partial(f, dirpath, top), unzip_error(url, <<"OSError">>),
                     <<IoEntry("fetch", url, TRUE), IoEntry("unzip", url, FALSE)>>)
        ELSE Outcome(os_rename(extractall(f, dirpath, top),
                               os_path_join(dirpath, Comp(top)), folder_path),
                     NoErr,
                     <<IoEntry("fetch", url, TRUE), IoEntry("unzip", url, TRUE)>>)

-----------------------------------------------------------------------------
(* templates                                                               *)

Lit(text) == [ph |-> FALSE, v |-> text]

Ph(name) == [ph |-> TRUE, v |-> name]

html_template ==
    << Lit("<!DOCTYPE html><html lang=\"en\"><head><meta charset=\"UTF-8\"><title>"),
       Ph("title"), Lit("</title>"), Ph("extra_script_head"), Lit("</head><body>"),
       Ph("body_pre"), Ph("snippet"), Ph("body_post"), Lit("</body></html>") >>

\* a caller's template that also uses a placeholder of its own
template_banner == <<Lit("<!-- "), Ph("banner"), Lit(" -->")>> \o html_template

Templates == {html_template, template_banner}

default_title == <<"IPyVolume Widget">>

default_template_options ==
    [extra_script_head |-> <<>>, body_pre |-> <<>>, body_post |-> <<>>]

TemplateOptions ==
    { default_template_options,
      [title |-> <<"My title">>, snippet |-> <<"my snippet">>,
       banner |-> <<"made by me">>] }

\* the placeholders a template refers to
Placeholders(template) == {template[i].v : i \in {j \in DOMAIN template : template[j].ph}}

RECURSIVE Substitute(_, _)
Substitute(template, opts) ==
    IF template = <<>> THEN <<>>
    ELSE (IF Head(template).ph THEN opts[Head(template).v] ELSE <<Head(template).v>>)
             \o Substitute(Tail(template), opts)

\* template.format(**opts)
str_format(template, opts) ==
    LET missing == Placeholders(template) \ DOMAIN opts IN
    IF missing # {}
    THEN [err |-> Error("KeyError", <<CHOOSE k \in missing : TRUE>>), out |-> <<>>]
    ELSE [err |-> NoErr, out |-> Substitute(template, opts)]

\* dict.update: the entries of new replace those of old
dict_update(old, new) == new @@ old

initial_template_opts(title, template_options) ==
    dict_update([title |-> title, extra_script_head |-> <<>>,
                 body_pre |-> <<>>, body_post |-> <<>>],
                template_options)

\* a slip: a snippet supplied by the caller kept
with_snippet_keep(template_opts, offline_snippet) ==
    dict_update([snippet |-> offline_snippet], template_opts)

with_snippet(template_opts, offline_snippet) ==
    dict_update(template_opts, [snippet |-> offline_snippet])

\* wembed.embed_snippet(widgets, embed_url=..., requirejs=False, state=state)
embed_snippet(embed_url, state) ==
    <<"<script src=\"">> \o embed_url \o <<"\" crossorigin=\"anonymous\"></script>">>
        \o <<"<script type=\"application/vnd.jupyter.widget-state+json\">">> \o state
        \o <<"</script>">>

offline_snippet_of(rel_script_path, fname_fontawe, fname_require, snippet) ==
    <<"<link href=\"">> \o rel_script_path \o fname_fontawe
        \o <<"/css/font-awesome.min.css\" rel=\"stylesheet\">">>
        \o <<"<script src=\"">> \o rel_script_path \o fname_require
        \o <<"\" crossorigin=\"anonymous\"></script>">>
        \o snippet

\* wembed.embed_minimal_html's page: the framework's own template, loading
\* require.js and the embedding script from their CDNs
minimal_html(state) ==
    <<"<script src=\"https://cdnjs.cloudflare.com/ajax/libs/require.js/2.3.4/require.min.js\"></script>">>
        \o embed_snippet(<<"https://unpkg.com/@jupyter-widgets/html-manager@">>
                             \o html_manager_version \o <<"/dist/embed-amd.js">>, state)

-----------------------------------------------------------------------------
(* embed_html                                                              *)

page == <<"page.html">>

\* page.html, out/page.html
FilePaths == { RelPath(<<page>>), RelPath(<<OUT, page>>) }

\* s, ., .., /x
ScriptsPaths ==
    { RelPath(<<SCRIPTS>>), RelPath(<<CURDIR>>), RelPath(<<PARDIR>>), AbsPath(<<OUTSIDE>>) }

NoArgs == [filepath |-> RelPath(<<>>)]

NoLoc == [dir_name_dst |-> RelPath(<<>>)]

EmptyFs == [dirs |-> {<<>>, CWD}, files |-> <<>>]

\* what an earlier export of out/page.html with scripts_path "s" left on disk
EarlierExport ==
    LET out == RelPath(<<OUT>>)
        scripts == RelPath(<<OUT, SCRIPTS>>)
        f1 == download_to_file(os_makedirs(EmptyFs, out), url_ipyvolumejs,
                               os_path_join(out, File("ipyvolume.js")), TRUE).fs
        f2 == shutil_copy(f1, threejs, out).fs
        f3 == save_requirejs(f2, scripts, TRUE).fs
        f4 == save_embed_js(f3, scripts, TRUE).fs
        f5 == os_rename(extractall(f4, scripts, folder_name_font_awesome),
                        os_path_join(scripts, Comp(folder_name_font_awesome)),
                        os_path_join(scripts, Comp(folder_name_font_awesome)))
    IN  WriteFile(f5, RelPath(<<OUT, page>>), <<"<html>an earlier export</html>">>)

\* the disk before the first call: bare, with out/, or with an earlier export
InitialFs == {EmptyFs, os_makedirs(EmptyFs, RelPath(<<OUT>>)), EarlierExport}

\* the values of all_states the calls are made with
AllStates == {FALSE}

\* a slip: the makedirs flag ignored
make_output_dir_always(f, dir_name_dst, makedirs) ==
    IF ~os_path_exists(f, dir_name_dst) THEN os_makedirs(f, dir_name_dst) ELSE f

\* lines 131-133
make_output_dir(f, dir_name_dst, makedirs) ==
    IF ~os_path_exists(f, dir_name_dst) /\ makedirs
    THEN os_makedirs(f, dir_name_dst) ELSE f

\* lines 138-141
state_of(all_states) == IF all_states THEN <<"null">> ELSE <<"{dependency state}">>

\* a slip: the path check made whenever offline is set
FirstStep_checked(offline, offline_req) ==
    IF ~offline THEN "online_html" ELSE "paths"

\* lines 143, 150-151: where the call goes after its preamble
FirstStep(offline, offline_req) ==
    IF ~offline THEN "online_html"
    ELSE IF offline_req THEN "paths" ELSE "snippet"

\* a slip: the embed script saved before the module loader
NextStep_swapped(step) ==
    CASE step = "paths"       -> "ipyvolumejs"
      [] step = "ipyvolumejs" -> "embedjs"
      [] step = "embedjs"     -> "requirejs"
      [] step = "requirejs"   -> "fontawesome"
      [] step = "fontawesome" -> "snippet"
      [] step = "snippet"     -> "render"
      [] step = "render"      -> "write"
      [] step = "write"       -> "done"

\* lines 164-182: the order of the steps of the offline branch
NextStep(step) ==
    CASE step = "paths"       -> "ipyvolumejs"
      [] step = "ipyvolumejs" -> "requirejs"
      [] step = "requirejs"   -> "embedjs"
      [] step = "embedjs"     -> "fontawesome"
      [] step = "fontawesome" -> "snippet"
      [] step = "snippet"     -> "render"
      [] step = "render"      -> "write"
      [] step = "write"       -> "done"

\* lines 152-153
resolve_scripts_path(filepath, scripts_path) ==
    IF ~os_path_isabs(scripts_path)
    THEN os_path_join(os_path_dirname(filepath), scripts_path)
    ELSE scripts_path

\* a slip: comparing with ".." instead of testing the prefix
escapes_exact(rel_script_path) == rel_script_path = PARDIR

\* line 156
escapes(rel_script_path) == str_startswith(rel_script_path, PARDIR)

\* a slip: forgetting the "." case
prefix_of_always_slash(rel_script_path) == rel_script_path \o SEP

\* lines 158-161
prefix_of(rel_script_path) ==
    IF rel_script_path = CURDIR THEN <<>> ELSE rel_script_path \o SEP

Bound(names) == names \subseteq DOMAIN loc

Fail(e) ==
    /\ err' = e
    /\ pc' = "error"

\* one step of the call: the outcome r of its I/O, then on success the
\* locals it binds and the step that follows
Step(name, r, newloc, next) ==
    /\ trace' = Append(trace, name)
    /\ fs' = r.fs
    /\ io' = io \o r.io
    /\ IF r.err # NoErr
       THEN Fail(r.err) /\ loc' = loc
       ELSE err' = err /\ loc' = newloc @@ loc /\ pc' = next
    /\ UNCHANGED <<devfile_exists, args, fs0, calls>>

Init ==
    /\ devfile_exists \in BOOLEAN
    /\ fs \in InitialFs
    /\ pc = "idle"
    /\ args = NoArgs
    /\ loc = NoLoc
    /\ err = NoErr
    /\ trace = <<>>
    /\ io = <<>>
    /\ fs0 = fs
    /\ calls = 0

\* lines 106-141: the call and its preamble
Call ==
    /\ pc = "idle"
    /\ calls < MaxCalls
    /\ \E filepath \in FilePaths, makedirs \in BOOLEAN, all_states \in AllStates,
          offline \in BOOLEAN, offline_req \in BOOLEAN, scripts_path \in ScriptsPaths,
          template \in Templates, template_options \in TemplateOptions,
          devmode \in BOOLEAN :
        LET dir_name_dst == os_path_dirname(os_path_abspath(filepath)) IN
        /\ args' = [filepath |-> filepath, makedirs |-> makedirs,
                    all_states |-> all_states, offline |-> offline,
                    offline_req |-> offline_req, scripts_path |-> scripts_path,
                    template |-> template, template_options |-> template_options,
                    devmode |-> devmode, title |-> default_title]
        /\ fs' = make_output_dir(fs, dir_name_dst, makedirs)
        /\ loc' = [dir_name_dst |-> dir_name_dst,
                   scripts_path |-> scripts_path,
                   template_opts |-> initial_template_opts(default_title, template_options),
                   state |-> state_of(all_states)]
        /\ pc' = FirstStep(offline, offline_req)
    /\ fs0' = fs
    /\ err' = NoErr
    /\ trace' = <<>>
    /\ io' = <<>>
    /\ calls' = calls + 1
    /\ UNCHANGED devfile_exists

\* lines 145-146: wembed.embed_minimal_html opens filepath for writing
OnlineHtml ==
    /\ pc = "online_html"
    /\ Step("online_html",
            IF CanOpenForWrite(fs, args.filepath)
            THEN Outcome(WriteFile(fs, args.filepath, minimal_html(loc.state)), NoErr, <<>>)
            ELSE Outcome(fs, Error("FileNotFoundError", PathStr(args.filepath)), <<>>),
            <<>>, "online_three")

\* lines 147-149
OnlineThreejs ==
    /\ pc = "online_three"
    /\ LET directory == os_path_dirname(args.filepath) IN
       Step("online_three", shutil_copy(fs, threejs, directory),
            [directory |-> directory], "done")

\* lines 152-161
ResolveScriptsPath ==
    /\ pc = "paths"
    /\ LET scripts_path == resolve_scripts_path(args.filepath, loc.scripts_path)
           rel_script_path ==
               os_path_relpath(scripts_path, os_path_dirname(args.filepath))
       IN  Step("paths",
                IF escapes(rel_script_path)
                THEN Outcome(fs, Error("ValueError",
                         <<"The scripts_path must have the same root directory as the filepath">>),
                         <<>>)
                ELSE Outcome(fs, NoErr, <<>>),
                [scripts_path |-> scripts_path,
                 rel_script_path |-> prefix_of(rel_script_path)],
                NextStep("paths"))

\* line 164
SaveIpyvolumejs ==
    /\ pc = "ipyvolumejs"
    /\ \E ok \in BOOLEAN :
        Step("ipyvolumejs", save_ipyvolumejs(fs, loc.dir_name_dst, args.devmode, ok),
             <<>>, NextStep("ipyvolumejs"))

\* line 165
SaveRequirejs ==
    /\ pc = "requirejs"
    /\ \E ok \in BOOLEAN :
        Step("requirejs", save_requirejs(fs, loc.scripts_path, ok),
             [fname_require |-> filename_requirejs], NextStep("requirejs"))

\* line 166
SaveEmbedJs ==
    /\ pc = "embedjs"
    /\ \E ok \in BOOLEAN :
        Step("embedjs", save_embed_js(fs, loc.scripts_path, ok),
             [fname_embed |-> filename_embed_js], NextStep("embedjs"))

\* line 167
SaveFontAwesome ==
    /\ pc = "fontawesome"
    /\ \E outcome \in FontOutcomes, top \in TopLevelNames :
        Step("fontawesome", save_font_awesome(fs, loc.scripts_path, outcome, top),
             [fname_fontawe |-> folder_name_font_awesome], NextStep("fontawesome"))

\* lines 169-175
Snippet ==
    /\ pc = "snippet"
    /\ IF ~Bound({"rel_script_path", "fname_embed", "fname_fontawe", "fname_require"})
       THEN Step("snippet",
                 Outcome(fs, Error("NameError", <<"rel_script_path">>), <<>>),
                 <<>>, NextStep("snippet"))
       ELSE LET snippet == embed_snippet(loc.rel_script_path \o loc.fname_embed, loc.state)
            IN  Step("snippet", Outcome(fs, NoErr, <<>>),
                     [snippet |-> snippet,
                      offline_snippet |->
                          offline_snippet_of(loc.rel_script_path, loc.fname_fontawe,
                                             loc.fname_require, snippet)],
                     NextStep("snippet"))

\* lines 177-179
Render ==
    /\ pc = "render"
    /\ LET template_opts == with_snippet(loc.template_opts, loc.offline_snippet)
           r == str_format(args.template, template_opts)
       IN  Step("render", Outcome(fs, r.err, <<>>),
                [template_opts |-> template_opts, html_code |-> r.out],
                NextStep("render"))

\* lines 181-182
WriteHtml ==
    /\ pc = "write"
    /\ Step("write",
            IF CanOpenForWrite(fs, args.filepath)
            THEN Outcome(WriteFile(fs, args.filepath, loc.html_code), NoErr, <<>>)
            ELSE Outcome(fs, Error("FileNotFoundError", PathStr(args.filepath)), <<>>),
            <<>>, NextStep("write"))

\* the call returns or raises; its frame is gone, the file system stays
Return ==
    /\ pc \in {"done", "error"}
    /\ pc' = "idle"
    /\ args' = NoArgs
    /\ loc' = NoLoc
    /\ err' = NoErr
    /\ trace' = <<>>
    /\ io' = <<>>
    /\ fs0' = fs
    /\ UNCHANGED <<fs, devfile_exists, calls>>

Next ==
    \/ Call
    \/ OnlineHtml
    \/ OnlineThreejs
    \/ ResolveScriptsPath
    \/ SaveIpyvolumejs
    \/ SaveRequirejs
    \/ SaveEmbedJs
    \/ SaveFontAwesome
    \/ Snippet
    \/ Render
    \/ WriteHtml
    \/ Return

Spec == Init /\ [][Next]_vars

-----------------------------------------------------------------------------
(* vocabulary of the properties                                            *)

InCall == pc # "idle"

Online == InCall /\ ~args.offline

OfflineBundled == InCall /\ args.offline /\ args.offline_req

OfflineUnbundled == InCall /\ args.offline /\ ~args.offline_req

\* the output file and its directory, as the file system knows them
HtmlKey == NormComps((IF args.filepath.abs THEN <<>> ELSE CWD) \o args.filepath.comps, <<>>)

OutDir == Front(HtmlKey)

\* the caller's scripts_path taken from the output directory
ScriptsDir ==
    NormComps((IF args.scripts_path.abs THEN <<>> ELSE OutDir) \o args.scripts_path.comps,
              <<>>)

\* scripts_path lies outside the subtree of the output directory
Escaping == ~IsUnder(ScriptsDir, OutDir)

Started(step) == \E i \in DOMAIN trace : trace[i] = step

SaveSteps == {"ipyvolumejs", "requirejs", "embedjs", "fontawesome"}

NoSaveStarted == \A i \in DOMAIN trace : trace[i] \notin SaveSteps

IsFile(f, k) == k \in DOMAIN f.files

SameFile(k) ==
    /\ IsFile(fs, k) <=> IsFile(fs0, k)
    /\ IsFile(fs, k) => fs.files[k] = fs0.files[k]

\* the files this call has created or changed
Written == {k \in DOMAIN fs.files : ~SameFile(k)}

NameIpyvolumejs == <<"ipyvolume.js">>
NameThreejs == <<"three.js">>
NameRequirejs == <<"require.min.v", "2.3.4", ".js">>
NameEmbedJs == <<"embed-amd_v", "0.18.0", ".js">>
NameFontAwesome == <<"font-awesome-", "4.7.0">>

IsPrefix(a, b) == Len(a) <= Len(b) /\ SubSeq(b, 1, Len(a)) = a

-----------------------------------------------------------------------------
(* C1                                                                      *)

\* C1: in offline-bundled mode, whenever scripts_path resolves to an ancestor
\* of the output directory or anywhere outside it, the call ends in the
\* path-escape ValueError, and up to that point no network request has been
\* made and none of the four asset savers has been started.
C1_EscapeRaisesBeforeNetwork ==
    (OfflineBundled /\ Escaping) =>
        /\ pc \in {"paths", "error"}
        /\ io = <<>>
        /\ NoSaveStarted
        /\ pc = "error" => (err.kind = "ValueError" /\ trace = <<"paths">>)
        /\ pc = "paths" => trace = <<>>

C1_Witness ==
    /\ OfflineBundled
    /\ Escaping
    /\ pc = "error"
    /\ err.kind = "ValueError"
    /\ io = <<>>

-----------------------------------------------------------------------------
(* C2                                                                      *)

\* C2: when embed_html raises the path-escape error nothing has been written:
\* the file system, directories included, is exactly as it was before the call.
C2_EscapeWritesNothing ==
    (InCall /\ pc = "error" /\ err.kind = "ValueError") => fs = fs0

-----------------------------------------------------------------------------
(* C3                                                                      *)

\* the path of scripts_path relative to the output directory, followed by "/";
\* empty when scripts_path is the output directory itself
ExpectedPrefix ==
    IF ScriptsDir = OutDir THEN <<>>
    ELSE JoinComps(SubSeq(ScriptsDir, Len(OutDir) + 1, Len(ScriptsDir))) \o SEP

\* C3: after a successful offline-bundled export ipyvolume.js and three.js are
\* in the output directory (and were not put into scripts_path), the module
\* loader, the embed script and the font-awesome folder are in scripts_path, and
\* the written HTML refers to the embed script, the module loader and the
\* stylesheet by scripts_path relative to the output directory, "/" and the
\* saved name (no prefix when scripts_path is the output directory).
C3_BundledLayout ==
    (OfflineBundled /\ pc = "done") =>
        /\ IsFile(fs, Append(OutDir, NameIpyvolumejs))
        /\ IsFile(fs, Append(OutDir, NameThreejs))
        /\ ScriptsDir # OutDir =>
              \A n \in {NameIpyvolumejs, NameThreejs} :
                  IsFile(fs, Append(ScriptsDir, n)) => IsFile(fs0, Append(ScriptsDir, n))
        /\ IsFile(fs, Append(ScriptsDir, NameRequirejs))
        /\ IsFile(fs, Append(ScriptsDir, NameEmbedJs))
        /\ Append(ScriptsDir, NameFontAwesome) \in fs.dirs
        /\ IsFile(fs, HtmlKey)
        /\ LET html == fs.files[HtmlKey] IN
           /\ Contains(html, <<"<script src=\"">> \o ExpectedPrefix \o NameEmbedJs
                                 \o <<"\" crossorigin=\"anonymous\"></script>">>)
           /\ Contains(html, <<"<script src=\"">> \o ExpectedPrefix \o NameRequirejs
                                 \o <<"\" crossorigin=\"anonymous\"></script>">>)
           /\ Contains(html, <<"<link href=\"">> \o ExpectedPrefix \o NameFontAwesome
                                 \o <<"/css/font-awesome.min.css\" rel=\"stylesheet\">">>)

C3_Witness ==
    /\ OfflineBundled
    /\ pc = "done"
    /\ ScriptsDir # OutDir
    /\ IsFile(fs, HtmlKey)
    /\ ~IsFile(fs0, Append(ScriptsDir, NameEmbedJs))

-----------------------------------------------------------------------------
(* C4                                                                      *)

\* C4: in online mode, for every output path whose directory exists or was
\* created by makedirs (a bare file name included), the call completes without
\* error, the files it writes are exactly the output HTML file and three.js in
\* the output directory, it creates nothing else and makes no download.
C4_OnlineWritesTwoFiles ==
    (Online /\ pc \in {"done", "error"} /\ OutDir \in fs.dirs) =>
        /\ pc = "done"
        /\ IsFile(fs, HtmlKey)
        /\ IsFile(fs, Append(OutDir, NameThreejs))
        /\ Written \subseteq {HtmlKey, Append(OutDir, NameThreejs)}
        /\ fs.dirs \subseteq fs0.dirs \cup Prefixes(OutDir)
        /\ io = <<>>
        /\ NoSaveStarted

-----------------------------------------------------------------------------
(* C5                                                                      *)

\* the font-awesome folder under dirpath
FontFolder(dirpath) == Append(Key(dirpath), NameFontAwesome)

Exists(f, k) == k \in f.dirs \/ IsFile(f, k)

C5_Step ==
    /\ (pc = "fontawesome" /\ Exists(fs, FontFolder(loc.scripts_path))) =>
          /\ fs' = fs
          /\ io' = io
          /\ pc' = "snippet"
          /\ loc'.fname_fontawe = NameFontAwesome
    /\ (pc = "fontawesome" /\ pc' = "snippet") =>
          Exists(fs', FontFolder(loc.scripts_path))
    /\ \A k \in fs.dirs : (k # <<>> /\ Last(k) = NameFontAwesome) => k \in fs'.dirs

\* C5: a call of save_font_awesome that finds <dirpath>/font-awesome-<version>
\* on disk makes no network request, changes nothing on disk and returns the
\* folder name; a successful call leaves that folder on disk and no step ever
\* removes it, so no call after the first successful one downloads anything.
C5_FontAwesomeCached == [][C5_Step]_vars

C5_Witness ==
    /\ OfflineBundled
    /\ pc = "snippet"
    /\ Started("fontawesome")
    /\ Append(ScriptsDir, NameFontAwesome) \in fs0.dirs
    /\ \A i \in DOMAIN io : io[i].url # url_font_awesome
    /\ loc.fname_fontawe = NameFontAwesome

-----------------------------------------------------------------------------
(* C6                                                                      *)

OfflineOrder ==
    <<"paths", "ipyvolumejs", "requirejs", "embedjs", "fontawesome",
      "snippet", "render", "write">>

\* the steps of this call that ran to their end
Completed(step) ==
    \E i \in DOMAIN trace : trace[i] = step /\ (pc = "error" => i < Len(trace))

\* the place of a url in the order of the downloads
Rank(url) ==
    CASE url = url_ipyvolumejs  -> 1
      [] url = url_requirejs    -> 2
      [] url = url_embed_js     -> 3
      [] url = url_font_awesome -> 4

C6_State ==
    OfflineBundled =>
        /\ IsPrefix(trace, OfflineOrder)
        /\ pc \in {"error", "done"} \/ pc = OfflineOrder[Len(trace) + 1]
        /\ pc = "done" => trace = OfflineOrder
        /\ \A i, j \in DOMAIN io :
              (i < j /\ io[i].op = "fetch" /\ io[j].op = "fetch") =>
                  Rank(io[i].url) < Rank(io[j].url)
        /\ \A i \in DOMAIN io : ~io[i].ok => (i = Len(io) /\ pc = "error")
        /\ pc = "error" => err # NoErr
        /\ Completed("ipyvolumejs") =>
              /\ IsFile(fs, Append(OutDir, NameIpyvolumejs))
              /\ IsFile(fs, Append(OutDir, NameThreejs))
        /\ Completed("requirejs") => IsFile(fs, Append(ScriptsDir, NameRequirejs))
        /\ Completed("embedjs") => IsFile(fs, Append(ScriptsDir, NameEmbedJs))
        /\ Completed("fontawesome") => Append(ScriptsDir, NameFontAwesome) \in fs.dirs
        /\ (~SameFile(HtmlKey) \/ Started("write")) =>
              \A i \in 1..7 : Completed(OfflineOrder[i])

C6_Step ==
    OfflineBundled =>
        /\ pc = "error" => (pc' = "idle" /\ fs' = fs)
        /\ pc' = "error" =>
              /\ fs.dirs \subseteq fs'.dirs
              /\ \A k \in DOMAIN fs.files : IsFile(fs', k) /\ fs'.files[k] = fs.files[k]

\* C6: in offline-bundled mode the steps run one after another in the order
\* ipyvolume.js with three.js, module loader, embed script, icon font, snippet,
\* rendering, HTML write; a failing step ends the call with its error, no
\* later step starts, no download is repeated, what the earlier steps placed
\* stays on disk, and the HTML file is written only after every earlier step
\* has succeeded.
C6_StepsInOrderNoRollback == []C6_State /\ [][C6_Step]_vars

C6_Witness ==
    /\ OfflineBundled
    /\ pc = "error"
    /\ trace = <<"paths", "ipyvolumejs", "requirejs", "embedjs", "fontawesome">>
    /\ IsFile(fs, Append(ScriptsDir, NameRequirejs))
    /\ ~IsFile(fs0, Append(ScriptsDir, NameRequirejs))
    /\ SameFile(HtmlKey)

-----------------------------------------------------------------------------
(* C7                                                                      *)

FontStepFailed ==
    /\ InCall
    /\ pc = "error"
    /\ trace # <<>>
    /\ Last(trace) = "fontawesome"

UnzipCauses == {<<"BadZipFile">>, <<"OSError">>}

\* C7 as claimed: every failure of the fetch or of the unzip in
\* save_font_awesome reaches the caller as the IOError that carries the url.
C7_EveryFailureWrapped ==
    FontStepFailed =>
        /\ err.kind = "IOError"
        /\ Contains(err.msg, url_font_awesome)

\* C7 as amended: a failure of the unzip (opening, listing or extracting the
\* archive) reaches the caller as the IOError carrying the url and the cause;
\* a failure of the fetch is not wrapped and reaches the caller as the
\* fetcher's own error.
C7_UnzipFailureWrapped ==
    FontStepFailed =>
        /\ io # <<>>
        /\ Last(io).url = url_font_awesome
        /\ ~Last(io).ok
        /\ Last(io).op = "unzip" =>
              /\ err.kind = "IOError"
              /\ \E cause \in UnzipCauses :
                    err.msg = <<"Could not unzip content from: ">> \o url_font_awesome
                                  \o <<"\n">> \o cause
        /\ Last(io).op = "fetch" =>
              /\ err.kind = "FetchError"
              /\ ~Contains(err.msg, <<"Could not unzip content from: ">>)

C7_Witness ==
    /\ FontStepFailed
    /\ Last(io).op = "unzip"
    /\ err.kind = "IOError"

-----------------------------------------------------------------------------
(* C8                                                                      *)

\* the placeholders the template uses that the options of the call lack
MissingKeys ==
    Placeholders(args.template)
        \ ({"title", "extra_script_head", "body_pre", "body_post", "snippet"}
               \cup DOMAIN args.template_options)

\* defaults, then the caller's options, then the computed snippet
ExpectedOpts ==
    [k \in {"title", "extra_script_head", "body_pre", "body_post", "snippet"}
               \cup DOMAIN args.template_options |->
        IF k = "snippet" THEN loc.offline_snippet
        ELSE IF k \in DOMAIN args.template_options THEN args.template_options[k]
        ELSE IF k = "title" THEN args.title
        ELSE <<>>]

\* C8 as claimed: whenever the template uses a placeholder the options lack,
\* embed_html ends in a formatting error and the output HTML file is neither
\* created nor modified (calls that end in a failed open or copy set aside).
C8_MissingKeyAlwaysFatal ==
    (InCall /\ pc \in {"done", "error"} /\ MissingKeys # {}
         /\ err.kind # "FileNotFoundError") =>
        /\ pc = "error"
        /\ SameFile(HtmlKey)
        /\ Started("render") => err.kind = "KeyError"

\* C8 as amended: in offline mode, the only mode that renders the template,
\* the options used are the defaults overridden by the caller's options with
\* snippet set to the computed snippet; when the template uses a placeholder
\* they lack, the output HTML file is neither created nor modified, and the
\* call ends in a formatting error once rendering is reached.
C8_OfflineMissingKeyFatal ==
    (InCall /\ args.offline) =>
        /\ Completed("render") => loc.template_opts = ExpectedOpts
        /\ MissingKeys # {} =>
              /\ SameFile(HtmlKey)
              /\ pc # "done"
              /\ Started("render") => (pc = "error" /\ err.kind = "KeyError")
        /\ pc = "done" => fs.files[HtmlKey] = Substitute(args.template, ExpectedOpts)

C8_Witness ==
    /\ InCall
    /\ args.offline
    /\ MissingKeys # {}
    /\ pc = "error"
    /\ err.kind = "KeyError"
    /\ IsFile(fs0, HtmlKey)

-----------------------------------------------------------------------------
(* C9                                                                      *)

\* C9: with offline=True and offline_req=False every call ends in the
\* undefined-variable error at snippet construction, whatever scripts_path is:
\* the path-escape check is not made, nothing is downloaded or copied, and
\* the output HTML file is not written.
C9_UnbundledAlwaysNameError ==
    OfflineUnbundled =>
        /\ pc \in {"snippet", "error"}
        /\ pc = "snippet" => trace = <<>>
        /\ pc = "error" => (err.kind = "NameError" /\ trace = <<"snippet">>)
        /\ io = <<>>
        /\ fs.files = fs0.files

C9_Witness ==
    /\ OfflineUnbundled
    /\ Escaping
    /\ pc = "error"
    /\ err.kind = "NameError"

-----------------------------------------------------------------------------
(* C10                                                                     *)

====
